---- MODULE Spec2Model ----
(***************************************************************************)
(* A model of the statistics and series-transform tools of server.py      *)
(* (ChartJS MCP server).  Each tool is a synchronous function from its    *)
(* arguments to a JSON document, or to an exception escaping the handler. *)
(*                                                                         *)
(* Numbers.  The series hold Python ints.  Python floats are modelled as  *)
(* exact rationals [num, den] in lowest terms with den > 0; a square root *)
(* is kept symbolically as [radicand], and round(x, 2) yields a rational  *)
(* with an integral number of hundredths (ties to even, as round() does on *)
(* a tie that is exact in binary).                                         *)
(*                                                                         *)
(* Float arithmetic is deterministic: where the rounding errors of a build *)
(* decide a comparison, they decide it the same way in every call on the   *)
(* same series.  tie_exceeds is that decision for the series held.         *)
(*                                                                         *)
(* Specifications.  Spec takes one invocation at a time and runs each      *)
(* handler as one step, over many series.  SpecThreads runs the handlers   *)
(* statement by statement on several threads of the one process, over a    *)
(* few series, with the locals of every call and the module-level table    *)
(* COLOR_PALETTES and the tool registry in the state.                      *)
(* SpecFilter applies filter_chart_data, which takes no series but labels   *)
(* and datasets, to arguments of its own.                                  *)
(***************************************************************************)
EXTENDS Integers, Sequences, FiniteSets, TLC

VARIABLES data, tool, args, outcome, tie_exceeds

\* the process-wide table, and the calls that run on threads of the process
VARIABLES COLOR_PALETTES, registry, calls, frames, results, earlier

process == <<COLOR_PALETTES, registry>>

threads == <<calls, frames, results, earlier>>

vars == <<data, tool, args, outcome, tie_exceeds, process, threads>>

(***************************************************************************)
(* Bounds of the model.                                                    *)
(***************************************************************************)
\* every series over Values of length 0..MaxLen is an input
MaxLen == 2
\* ... and each of them extended by 1..MaxPad copies of one value
MaxPad == 9
\* window sizes range over -1..MaxWindow
MaxWindow == 3
\* label lists of length 0..MaxLabels
MaxLabels == 1
\* the data of a dataset to filter holds 0..MaxFilterLen values
MaxFilterLen == 2

Values == {-1, 0, 1, 3}

LabelNames == <<"A", "B", "C", "D", "E", "F", "G", "H", "I", "J">>

\* the series the repository's own tests and documentation exercise
TestSeries == <<12, 45, 23, 67, 89, 34, 56, 78, 90, 23>>

MovingAverageSeries == <<10, 20, 30, 40, 50>>

DocSeries ==
    { TestSeries, MovingAverageSeries, <<100, 150, 120>>, <<0, 50>>,
      <<1, 2, 3, 4>>, <<1, 2, 3>> }

ShortSeries == UNION { [1..n -> Values] : n \in 0..MaxLen }

Padded(s, v, k) == s \o [i \in 1..k |-> v]

Series ==
    ShortSeries
      \cup { Padded(s, v, k) : s \in ShortSeries, v \in Values, k \in 1..MaxPad }
      \cup DocSeries

WindowSizes == (-1)..MaxWindow

(***************************************************************************)
(* Optional[...] arguments: None, or a value.                              *)
(***************************************************************************)
None == [none |-> TRUE, val |-> <<>>]

Some(x) == [none |-> FALSE, val |-> x]

LabelOptions ==
    {None} \cup { Some(SubSeq(LabelNames, 1, k)) : k \in 0..MaxLabels }
           \cup { Some(LabelNames) }

(***************************************************************************)
(* Exact arithmetic standing for Python's float arithmetic.                *)
(***************************************************************************)
Abs(x) == IF x < 0 THEN -x ELSE x

RECURSIVE GCD(_, _)
GCD(a, b) == IF b = 0 THEN a ELSE GCD(b, a % b)

\* the rational n/d, d # 0, in lowest terms with a positive denominator
Rat(n, d) ==
    LET g == GCD(Abs(n), Abs(d))
        s == IF d < 0 THEN -1 ELSE 1
    IN  [num |-> s * (n \div g), den |-> s * (d \div g)]

ToRat(n) == [num |-> n, den |-> 1]

RatAdd(p, q) ==
    LET g == GCD(p.den, q.den)
    IN  Rat(p.num * (q.den \div g) + q.num * (p.den \div g), p.den * (q.den \div g))

RatNeg(p) == [num |-> -p.num, den |-> p.den]

RatSub(p, q) == RatAdd(p, RatNeg(q))

RatMul(p, q) ==
    LET g1 == GCD(Abs(p.num), q.den)
        g2 == GCD(Abs(q.num), p.den)
    IN  Rat((p.num \div g1) * (q.num \div g2), (p.den \div g2) * (q.den \div g1))

\* p / q for q # 0
RatDiv(p, q) == RatMul(p, Rat(q.den, q.num))

RatLess(p, q) == p.num * q.den < q.num * p.den

IsZero(p) == p.num = 0

\* floor of the square root of n >= 0
RECURSIVE ISqrtFrom(_, _)
ISqrtFrom(n, k) == IF (k + 1) * (k + 1) > n THEN k ELSE ISqrtFrom(n, k + 1)

RECURSIVE ISqrt(_)
ISqrt(n) ==
    IF n < 4 THEN ISqrtFrom(n, 0)
    ELSE LET r == 2 * ISqrt(n \div 4)
         IN  IF (r + 1) * (r + 1) <= n THEN r + 1 ELSE r

\* x ** 0.5 for a rational x >= 0, kept symbolically
Sqrt(x) == [radicand |-> x]

\* mutation: round(x, 1), one decimal place
Round1(x) ==
    LET t  == RatMul(x, ToRat(10))
        fl == t.num \div t.den
        r2 == 2 * (t.num - fl * t.den)
        h  == IF r2 < t.den THEN fl
              ELSE IF r2 > t.den THEN fl + 1
              ELSE IF fl % 2 = 0 THEN fl ELSE fl + 1
    IN  Rat(h, 10)

\* round(x, 2) of a rational x: the nearest multiple of 1/100, ties to even
Round2(x) ==
    LET t  == RatMul(x, ToRat(100))
        fl == t.num \div t.den
        r2 == 2 * (t.num - fl * t.den)
        h  == IF r2 < t.den THEN fl
              ELSE IF r2 > t.den THEN fl + 1
              ELSE IF fl % 2 = 0 THEN fl ELSE fl + 1
    IN  Rat(h, 100)

\* round(s, 2) of a square root s = Sqrt(x)
Round2Sqrt(s) ==
    LET t   == RatMul(s.radicand, ToRat(10000))
        f4  == (4 * t.num) \div t.den
        m   == ISqrt(f4)
        up  == (m + 1) \div 2
        tie == m % 2 = 1 /\ m * m * t.den = 4 * t.num
        h   == IF tie /\ up % 2 = 1 THEN up - 1 ELSE up
    IN  Rat(h, 100)

(***************************************************************************)
(* Python built-ins used by the tools.                                     *)
(***************************************************************************)
\* sum(xs): left-to-right accumulation from 0
RECURSIVE SumFrom(_, _, _)
SumFrom(xs, i, acc) ==
    IF i > Len(xs) THEN acc ELSE SumFrom(xs, i + 1, acc + xs[i])

PySum(xs) == SumFrom(xs, 1, 0)

RECURSIVE RatSumFrom(_, _, _)
RatSumFrom(xs, i, acc) ==
    IF i > Len(xs) THEN acc ELSE RatSumFrom(xs, i + 1, RatAdd(acc, xs[i]))

PySumRat(xs) == RatSumFrom(xs, 1, ToRat(0))

RECURSIVE Insert(_, _)
Insert(x, xs) ==
    IF xs = <<>> THEN <<x>>
    ELSE IF x <= Head(xs) THEN <<x>> \o xs
    ELSE <<Head(xs)>> \o Insert(x, Tail(xs))

\* sorted(xs): ascending
RECURSIVE PySorted(_)
PySorted(xs) == IF xs = <<>> THEN <<>> ELSE Insert(Head(xs), PySorted(Tail(xs)))

\* min(xs), max(xs) of a non-empty list
PyMin(xs) == CHOOSE x \in { xs[i] : i \in 1..Len(xs) } :
                 \A j \in 1..Len(xs) : x <= xs[j]

PyMax(xs) == CHOOSE x \in { xs[i] : i \in 1..Len(xs) } :
                 \A j \in 1..Len(xs) : x >= xs[j]

\* xs[lo:hi] with 0 <= lo, 0 <= hi (0-based, half-open, clamped to the list)
PySlice(xs, lo, hi) ==
    LET h == IF hi > Len(xs) THEN Len(xs) ELSE hi
    IN  IF lo >= h THEN <<>> ELSE SubSeq(xs, lo + 1, h)

(***************************************************************************)
(* What a handler yields: a JSON document, or an exception that escapes.  *)
(***************************************************************************)
Return(doc) == [kind |-> "return", value |-> doc]

Raise(exc) == [kind |-> "raise", exc |-> exc]

Pending == [kind |-> "pending"]

(***************************************************************************)
(* analyze_data_for_chart                                                  *)
(***************************************************************************)
SmallSampleLimit == 10

PieSuggestion ==
    [type |-> "pie",
     reason |-> "Small dataset works well with pie chart for proportions"]

BarSuggestion ==
    [type |-> "bar", reason |-> "Bar chart for easy comparison of values"]

LineSuggestion ==
    [type |-> "line", reason |-> "Line chart for trends over time or sequence"]

AreaSuggestion ==
    [type |-> "area", reason |-> "Area chart to show cumulative trends"]

ScatterSuggestion ==
    [type |-> "scatter",
     reason |-> "High variability suggests scatter plot for distribution"]

RECURSIVE IsPowerOfTwo(_)
IsPowerOfTwo(n) == n = 1 \/ (n > 1 /\ n % 2 = 0 /\ IsPowerOfTwo(n \div 2))

\* a rational that a binary float holds exactly (for the small values here)
Dyadic(x) == IsPowerOfTwo(x.den)

\* mutation: abs(std_dev / mean) > 0.5
ExactMagnitudeExceedsHalf(s, mean) ==
    RatLess(RatMul(RatMul(mean, mean), Rat(1, 4)), s.radicand)

\* the exact comparison sqrt(radicand) / mean > 1/2 for mean # 0: the quotient
\* of a root by a negative mean is <= 0; by a positive mean it exceeds 1/2
\* iff radicand > mean^2 / 4
ExactQuotientExceedsHalf(s, mean) ==
    /\ mean.num > 0
    /\ RatLess(RatMul(RatMul(mean, mean), Rat(1, 4)), s.radicand)

ExactQuotientIsHalf(s, mean) ==
    /\ mean.num > 0
    /\ RatMul(RatMul(mean, mean), Rat(1, 4)) = s.radicand

\* mutation: std_dev / mean >= 0.5
QuotientAtLeastHalf(s, mean) ==
    {ExactQuotientExceedsHalf(s, mean) \/ ExactQuotientIsHalf(s, mean)}

\* the exact quotient is 1/2 and the floats do not hold the mean exactly
RoundingDecides(s, mean) == ExactQuotientIsHalf(s, mean) /\ ~Dyadic(mean)

\* std_dev / mean > 0.5 as the floats decide it, for mean # 0: the possible
\* results.  Rounding errors of the float operations (about 1e-16) cannot
\* change the result unless the exact quotient is exactly 1/2.  Then the
\* computation is exact, and the result False, when the mean is dyadic (every
\* intermediate value is); otherwise the accumulated rounding of /, **, sum
\* decides, either way, and the same way in every call.
QuotientExceedsHalf(s, mean) ==
    IF RoundingDecides(s, mean) THEN {tie_exceeds}
    ELSE {ExactQuotientExceedsHalf(s, mean)}

\* the median of the sorted list
Median(sorted_data, count) ==
    IF count % 2 = 1
    THEN ToRat(sorted_data[(count \div 2) + 1])
    ELSE Rat(sorted_data[count \div 2] + sorted_data[(count \div 2) + 1], 2)

\* mutation: the sample variance, divisor count - 1
VarianceSample(xs, mean, count) ==
    LET sq(x) == LET d == RatSub(ToRat(x), mean) IN RatMul(d, d)
    IN  RatDiv(PySumRat([i \in 1..Len(xs) |-> sq(xs[i])]),
               ToRat(IF count > 1 THEN count - 1 ELSE 1))

\* sum((x - mean) ** 2 for x in data) / count
Variance(xs, mean, count) ==
    LET sq(x) == LET d == RatSub(ToRat(x), mean) IN RatMul(d, d)
    IN  RatDiv(PySumRat([i \in 1..Len(xs) |-> sq(xs[i])]), ToRat(count))

\* mutation: the empty input is rejected by raising
EmptyInputRaises == Raise("ValueError")

\* the result for an empty series
EmptyInputResult == Return([error |-> "No data provided"])

\* mutation: count < 10 for count <= 10
SmallSampleRuleBelowLimit(count) ==
    IF count < SmallSampleLimit THEN <<PieSuggestion, BarSuggestion>> ELSE <<>>

SmallSampleRule(count) ==
    IF count <= SmallSampleLimit THEN <<PieSuggestion, BarSuggestion>> ELSE <<>>

\* mutation: count >= 10 for count > 10
LargeSampleRuleFromLimit(count) ==
    IF count >= SmallSampleLimit THEN <<LineSuggestion, AreaSuggestion>> ELSE <<>>

LargeSampleRule(count) ==
    IF count > SmallSampleLimit THEN <<LineSuggestion, AreaSuggestion>> ELSE <<>>

\* the possible outcomes of the variability rule
VariabilityRule(std_dev, mean) ==
    { IF high THEN <<ScatterSuggestion>> ELSE <<>> :
        high \in QuotientExceedsHalf(std_dev, mean) }

\* mutation: the variability rule is applied before the count rules
SuggestionsVariabilityFirst(count, by_variability) ==
    by_variability \o SmallSampleRule(count) \o LargeSampleRule(count)

\* the suggestions list, in the order the rules append to it
Suggestions(count, by_variability) ==
    SmallSampleRule(count) \o LargeSampleRule(count) \o by_variability

\* mutation: has_labels from the truth value of labels, as label_count is
DataSummaryByTruth(labels) ==
    [has_labels |-> ~labels.none /\ labels.val # <<>>,
     label_count |-> IF ~labels.none /\ labels.val # <<>>
                     THEN Len(labels.val) ELSE 0]

DataSummary(labels) ==
    [has_labels |-> ~labels.none,
     label_count |-> IF ~labels.none /\ labels.val # <<>>
                     THEN Len(labels.val) ELSE 0]

\* mutation: labels that do not pair 1:1 with the series are rejected
analyze_data_for_chart_paired(xs, labels) ==
    IF xs = <<>> THEN {EmptyInputResult}
    ELSE IF ~labels.none /\ Len(labels.val) # Len(xs)
    THEN {Raise("ValueError")}
    ELSE
      LET total       == PySum(xs)
          count       == Len(xs)
          mean        == Rat(total, count)
          sorted_data == PySorted(xs)
          median      == Median(sorted_data, count)
          min_val     == PyMin(xs)
          max_val     == PyMax(xs)
          range_val   == max_val - min_val
          variance    == Variance(xs, mean, count)
          std_dev     == Sqrt(variance)
      IN  IF IsZero(mean) THEN {Raise("ZeroDivisionError")}
          ELSE
            { Return(
                [statistics |->
                   [count |-> count, sum |-> total, mean |-> Round2(mean),
                    median |-> median, min |-> min_val, max |-> max_val,
                    range |-> range_val, std_dev |-> Round2Sqrt(std_dev),
                    variance |-> Round2(variance)],
                 suggested_charts |-> Suggestions(count, by_variability),
                 data_summary |-> DataSummary(labels)]) :
              by_variability \in VariabilityRule(std_dev, mean) }

\* the set of possible outcomes of the handler (one, but for the float
\* comparison of the variability rule)
analyze_data_for_chart(xs, labels) ==
    IF xs = <<>> THEN {EmptyInputResult}
    ELSE
      LET total       == PySum(xs)
          count       == Len(xs)
          mean        == Rat(total, count)
          sorted_data == PySorted(xs)
          median      == Median(sorted_data, count)
          min_val     == PyMin(xs)
          max_val     == PyMax(xs)
          range_val   == max_val - min_val
          variance    == Variance(xs, mean, count)
          std_dev     == Sqrt(variance)
      IN  IF IsZero(mean) THEN {Raise("ZeroDivisionError")}
          ELSE
            { Return(
                [statistics |->
                   [count |-> count, sum |-> total, mean |-> Round2(mean),
                    median |-> median, min |-> min_val, max |-> max_val,
                    range |-> range_val, std_dev |-> Round2Sqrt(std_dev),
                    variance |-> Round2(variance)],
                 suggested_charts |-> Suggestions(count, by_variability),
                 data_summary |-> DataSummary(labels)]) :
              by_variability \in VariabilityRule(std_dev, mean) }

(***************************************************************************)
(* transform_data_cumulative                                               *)
(***************************************************************************)
\* mutation: the running sum is appended before the value is added
RECURSIVE CumulativeLoopAppendFirst(_, _, _, _)
CumulativeLoopAppendFirst(xs, i, running_sum, cumulative) ==
    IF i > Len(xs) THEN cumulative
    ELSE CumulativeLoopAppendFirst(xs, i + 1, running_sum + xs[i],
                                   Append(cumulative, running_sum))

\* the loop: running_sum += value; cumulative.append(running_sum)
RECURSIVE CumulativeLoop(_, _, _, _)
CumulativeLoop(xs, i, running_sum, cumulative) ==
    IF i > Len(xs) THEN cumulative
    ELSE CumulativeLoop(xs, i + 1, running_sum + xs[i],
                        Append(cumulative, running_sum + xs[i]))

\* mutation: the sums are accumulated in place, in the list that is returned
\* as the original
transform_data_cumulative_in_place(xs) ==
    Return([original |-> CumulativeLoop(xs, 1, 0, <<>>),
            cumulative |-> CumulativeLoop(xs, 1, 0, <<>>)])

transform_data_cumulative(xs) ==
    Return([original |-> xs, cumulative |-> CumulativeLoop(xs, 1, 0, <<>>)])

(***************************************************************************)
(* transform_data_moving_average                                           *)
(***************************************************************************)
PyMax2(a, b) == IF a >= b THEN a ELSE b

\* mutation: the window starts one index early, at max(0, i - window_size)
WindowFromPrevious(xs, i, window_size) ==
    PySlice(xs, PyMax2(0, i - window_size), i + 1)

\* the window of the 0-based index i: data[max(0, i - window_size + 1) : i + 1]
Window(xs, i, window_size) == PySlice(xs, PyMax2(0, i - window_size + 1), i + 1)

\* mutation: an index whose window is not yet full gets the padding value 0
RECURSIVE MovingAverageLoopPadded(_, _, _, _)
MovingAverageLoopPadded(xs, i, window_size, moving_avg) ==
    IF i >= Len(xs) THEN Return(moving_avg)
    ELSE LET window == Window(xs, i, window_size)
         IN  IF Len(window) = 0 THEN Raise("ZeroDivisionError")
             ELSE MovingAverageLoopPadded(xs, i + 1, window_size,
                      Append(moving_avg,
                             IF i < window_size - 1 THEN ToRat(0)
                             ELSE Rat(PySum(window), Len(window))))

\* the loop over range(len(data)); sum(window) / len(window) raises on an
\* empty window, and the exception ends the handler
RECURSIVE MovingAverageLoop(_, _, _, _)
MovingAverageLoop(xs, i, window_size, moving_avg) ==
    IF i >= Len(xs) THEN Return(moving_avg)
    ELSE LET window == Window(xs, i, window_size)
         IN  IF Len(window) = 0 THEN Raise("ZeroDivisionError")
             ELSE MovingAverageLoop(xs, i + 1, window_size,
                      Append(moving_avg, Rat(PySum(window), Len(window))))

transform_data_moving_average(xs, window_size) ==
    LET loop == MovingAverageLoop(xs, 0, window_size, <<>>)
    IN  IF loop.kind = "raise" THEN loop
        ELSE Return(
          [original |-> xs,
           moving_average |-> [k \in 1..Len(loop.value) |-> Round2(loop.value[k])],
           window_size |-> window_size])

(***************************************************************************)
(* transform_data_percentage_change                                        *)
(***************************************************************************)
\* mutation: a rise from a zero baseline counts as a change of 100 percent
RECURSIVE PercentageChangeLoopFullRise(_, _, _)
PercentageChangeLoopFullRise(xs, i, pct_change) ==
    IF i >= Len(xs) THEN pct_change
    ELSE IF xs[i] # 0
         THEN LET change == RatMul(Rat(xs[i + 1] - xs[i], xs[i]), ToRat(100))
              IN  PercentageChangeLoopFullRise(xs, i + 1,
                      Append(pct_change, Round2(change)))
         ELSE PercentageChangeLoopFullRise(xs, i + 1,
                  Append(pct_change,
                         IF xs[i + 1] # 0 THEN ToRat(100) ELSE ToRat(0)))

\* mutation: the change is taken relative to the magnitude of the baseline
RECURSIVE PercentageChangeLoopMagnitude(_, _, _)
PercentageChangeLoopMagnitude(xs, i, pct_change) ==
    IF i >= Len(xs) THEN pct_change
    ELSE IF xs[i] # 0
         THEN LET change == RatMul(Rat(xs[i + 1] - xs[i], Abs(xs[i])), ToRat(100))
              IN  PercentageChangeLoopMagnitude(xs, i + 1,
                      Append(pct_change, Round2(change)))
         ELSE PercentageChangeLoopMagnitude(xs, i + 1,
                  Append(pct_change, ToRat(0)))

\* the loop over range(1, len(data)), 0-based i
RECURSIVE PercentageChangeLoop(_, _, _)
PercentageChangeLoop(xs, i, pct_change) ==
    IF i >= Len(xs) THEN pct_change
    ELSE IF xs[i] # 0
         THEN LET change == RatMul(Rat(xs[i + 1] - xs[i], xs[i]), ToRat(100))
              IN  PercentageChangeLoop(xs, i + 1, Append(pct_change, Round2(change)))
         ELSE PercentageChangeLoop(xs, i + 1, Append(pct_change, ToRat(0)))

\* mutation: no guard on the baseline, the division by a zero baseline raises
transform_data_percentage_change_unguarded(xs) ==
    IF \E i \in 1..(Len(xs) - 1) : xs[i] = 0
    THEN Raise("ZeroDivisionError")
    ELSE Return([original |-> xs,
                 percentage_change |-> PercentageChangeLoop(xs, 1, <<ToRat(0)>>)])

transform_data_percentage_change(xs) ==
    Return([original |-> xs,
            percentage_change |-> PercentageChangeLoop(xs, 1, <<ToRat(0)>>)])

(***************************************************************************)
(* filter_chart_data                                                       *)
(***************************************************************************)
\* dict.get(key, default)
Get(dict, key, default) == IF key \in DOMAIN dict THEN dict[key] ELSE default

\* the chain of tests on filter_condition
Match(filter_condition, value, threshold) ==
    \/ filter_condition = "greater_than" /\ value > threshold
    \/ filter_condition = "less_than" /\ value < threshold
    \/ filter_condition = "equals" /\ value = threshold
    \/ filter_condition = "not_equals" /\ value # threshold

\* the loop over enumerate(first_dataset_data), 0-based i: it collects the
\* matching indices and, where there is one, the label of each
RECURSIVE MatchingLoop(_, _, _, _, _, _)
MatchingLoop(first_dataset_data, labels, filter_condition, threshold, i, found) ==
    IF i >= Len(first_dataset_data) THEN found
    ELSE IF Match(filter_condition, first_dataset_data[i + 1], threshold)
    THEN MatchingLoop(first_dataset_data, labels, filter_condition, threshold,
             i + 1,
             [matching_indices |-> Append(found.matching_indices, i),
              filtered_labels |->
                  IF i < Len(labels)
                  THEN Append(found.filtered_labels, labels[i + 1])
                  ELSE found.filtered_labels])
    ELSE MatchingLoop(first_dataset_data, labels, filter_condition, threshold,
             i + 1, found)

\* [original_data[i] for i in matching_indices if i < len(original_data)]
RECURSIVE Survivors(_, _)
Survivors(original_data, matching_indices) ==
    IF matching_indices = <<>> THEN <<>>
    ELSE (IF Head(matching_indices) < Len(original_data)
          THEN <<original_data[Head(matching_indices) + 1]>> ELSE <<>>)
         \o Survivors(original_data, Tail(matching_indices))

\* dataset.copy() with its "data" replaced
FilteredDataset(dataset, matching_indices) ==
    [key \in DOMAIN dataset \cup {"data"} |->
        IF key = "data"
        THEN Survivors(Get(dataset, "data", <<>>), matching_indices)
        ELSE dataset[key]]

NothingFound == [matching_indices |-> <<>>, filtered_labels |-> <<>>]

\* mutation: the last dataset, not the first, is the baseline
filter_chart_data_by_last(labels, datasets, filter_condition, threshold) ==
    LET found ==
            IF datasets # <<>>
            THEN MatchingLoop(Get(datasets[Len(datasets)], "data", <<>>), labels,
                              filter_condition, threshold, 0, NothingFound)
            ELSE NothingFound
    IN  Return(
          [labels |-> found.filtered_labels,
           datasets |-> [k \in 1..Len(datasets) |->
                            FilteredDataset(datasets[k], found.matching_indices)],
           filter_applied |->
               [condition |-> filter_condition, threshold |-> threshold,
                original_count |-> Len(labels),
                filtered_count |-> Len(found.filtered_labels)]])

filter_chart_data(labels, datasets, filter_condition, threshold) ==
    LET found ==
            IF datasets # <<>>
            THEN MatchingLoop(Get(datasets[1], "data", <<>>), labels,
                              filter_condition, threshold, 0, NothingFound)
            ELSE NothingFound
    IN  Return(
          [labels |-> found.filtered_labels,
           datasets |-> [k \in 1..Len(datasets) |->
                            FilteredDataset(datasets[k], found.matching_indices)],
           filter_applied |->
               [condition |-> filter_condition, threshold |-> threshold,
                original_count |-> Len(labels),
                filtered_count |-> Len(found.filtered_labels)]])

(***************************************************************************)
(* The process: the module-level table and the calls in progress.          *)
(***************************************************************************)
\* COLOR_PALETTES as the module defines it
ColorPalettes ==
    [vibrant |->
       <<"rgba(255, 99, 132, 0.8)", "rgba(54, 162, 235, 0.8)",
         "rgba(255, 206, 86, 0.8)", "rgba(75, 192, 192, 0.8)",
         "rgba(153, 102, 255, 0.8)", "rgba(255, 159, 64, 0.8)",
         "rgba(199, 199, 199, 0.8)", "rgba(83, 102, 255, 0.8)",
         "rgba(255, 99, 255, 0.8)">>,
     pastel |->
       <<"rgba(255, 179, 186, 0.8)", "rgba(186, 225, 255, 0.8)",
         "rgba(255, 223, 186, 0.8)", "rgba(186, 255, 201, 0.8)",
         "rgba(220, 186, 255, 0.8)", "rgba(255, 218, 193, 0.8)">>,
     professional |->
       <<"rgba(41, 128, 185, 0.8)", "rgba(52, 152, 219, 0.8)",
         "rgba(155, 89, 182, 0.8)", "rgba(142, 68, 173, 0.8)",
         "rgba(22, 160, 133, 0.8)", "rgba(26, 188, 156, 0.8)">>,
     earth |->
       <<"rgba(139, 69, 19, 0.8)", "rgba(160, 82, 45, 0.8)",
         "rgba(205, 133, 63, 0.8)", "rgba(210, 180, 140, 0.8)",
         "rgba(188, 143, 143, 0.8)", "rgba(165, 42, 42, 0.8)">>]

\* the functions decorated with @mcp.tool(), in the order of the file
DecoratedFunctions ==
    <<"create_chart_config", "create_pie_chart", "create_doughnut_chart",
      "create_bar_chart", "create_line_chart", "create_radar_chart",
      "create_polar_area_chart", "create_scatter_chart",
      "create_bubble_chart", "create_mixed_chart", "create_chart_html",
      "get_chart_templates", "get_color_palettes", "create_area_chart",
      "create_time_series_chart", "create_funnel_chart",
      "create_gauge_chart", "analyze_data_for_chart", "add_chart_animations",
      "create_comparison_chart", "create_multi_axis_chart",
      "create_chart_with_annotations", "export_chart_data_csv",
      "create_gradient_dataset", "create_waterfall_chart",
      "create_heatmap_chart", "create_candlestick_chart",
      "create_realtime_chart_config", "create_realtime_chart_config",
      "add_responsive_breakpoints", "add_accessibility_features",
      "transform_data_cumulative", "transform_data_moving_average",
      "transform_data_percentage_change", "merge_chart_datasets",
      "create_theme_preset", "add_interactive_tooltips",
      "add_zoom_pan_controls", "add_zoom_pan_controls", "filter_chart_data",
      "add_statistical_overlay", "export_chart_as_image_html">>

\* mutation: every decorated function gets an entry of its own
add_tool_per_function(tools, k) == tools \cup {<<DecoratedFunctions[k], k>>}

\* the decorator registers function k under its name; a name that is already
\* registered stays one entry
add_tool(tools, k) == tools \cup {DecoratedFunctions[k]}

\* the registry once the module is loaded: the decorators run in file order
RECURSIVE RegisterFrom(_, _)
RegisterFrom(tools, k) ==
    IF k > Len(DecoratedFunctions) THEN tools
    ELSE RegisterFrom(add_tool(tools, k), k + 1)

Registered == RegisterFrom({}, 1)

Threads == {1, 2}

\* a thread that runs no call
NoCall == [tool |-> "none"]

\* the locals of the handlers, by name, before any is assigned
NoLocals ==
    [i |-> 0, running_sum |-> 0, cumulative |-> <<>>, moving_avg |-> <<>>,
     pct_change |-> <<>>, suggestions |-> <<>>]

\* no call was made yet
NoEarlier == [call |-> NoCall, outcome |-> Pending]

\* no thread runs a call
AtRest ==
    /\ calls = [t \in Threads |-> NoCall]
    /\ frames = [t \in Threads |-> NoLocals]
    /\ results = [t \in Threads |-> Pending]
    /\ earlier = NoEarlier

(***************************************************************************)
(* The server: a client holds a series and invokes tools on it.  The       *)
(* server takes one invocation at a time: the handler runs to completion,  *)
(* its outcome goes back to the client, and the server waits for the next  *)
(* invocation.                                                             *)
(***************************************************************************)
\* no argument besides the series
NoArgs == <<>>

\* the ways the float rounding of a build can decide std_dev / mean > 0.5
\* on the series xs
TieOutcomes(xs) ==
    IF xs = <<>> \/ PySum(xs) = 0 THEN {FALSE}
    ELSE LET mean == Rat(PySum(xs), Len(xs))
         IN  IF RoundingDecides(Sqrt(Variance(xs, mean, Len(xs))), mean)
             THEN BOOLEAN ELSE {FALSE}

Init ==
    /\ data \in Series
    /\ tie_exceeds \in TieOutcomes(data)
    /\ tool = "none"
    /\ args = NoArgs
    /\ outcome = Pending
    /\ COLOR_PALETTES = ColorPalettes
    /\ registry = Registered
    /\ AtRest

Idle == outcome = Pending

Analyze ==
    \E labels \in LabelOptions :
        /\ Idle
        /\ tool' = "analyze_data_for_chart"
        /\ args' = [labels |-> labels]
        /\ outcome' \in analyze_data_for_chart(data, labels)
        /\ UNCHANGED <<data, tie_exceeds, process, threads>>

Cumulative ==
    /\ Idle
    /\ tool' = "transform_data_cumulative"
    /\ args' = NoArgs
    /\ outcome' = transform_data_cumulative(data)
    /\ UNCHANGED <<data, tie_exceeds, process, threads>>

MovingAverage ==
    \E window_size \in WindowSizes :
        /\ Idle
        /\ tool' = "transform_data_moving_average"
        /\ args' = [window_size |-> window_size]
        /\ outcome' = transform_data_moving_average(data, window_size)
        /\ UNCHANGED <<data, tie_exceeds, process, threads>>

PercentageChange ==
    /\ Idle
    /\ tool' = "transform_data_percentage_change"
    /\ args' = NoArgs
    /\ outcome' = transform_data_percentage_change(data)
    /\ UNCHANGED <<data, tie_exceeds, process, threads>>

\* the outcome is delivered; nothing of the invocation is kept
Respond ==
    /\ ~Idle
    /\ tool' = "none"
    /\ args' = NoArgs
    /\ outcome' = Pending
    /\ UNCHANGED <<data, tie_exceeds, process, threads>>

Next == Analyze \/ Cumulative \/ MovingAverage \/ PercentageChange \/ Respond

Spec == Init /\ [][Next]_vars

(***************************************************************************)
(* The handlers statement by statement, on the threads of the process.     *)
(* A thread enters a handler with fresh locals, runs it one loop iteration *)
(* (or one rule) at a time, and delivers the outcome.  Threads switch      *)
(* between any two steps.                                                  *)
(***************************************************************************)
server == <<data, tool, args, outcome, tie_exceeds>>

ThreadSeries == { <<>>, <<0, 50>>, <<1, 2, 3>> }

ThreadWindows == {0, 2}

ThreadCalls ==
    { [tool |-> name, data |-> xs] :
        name \in {"analyze_data_for_chart", "transform_data_cumulative",
                  "transform_data_percentage_change"},
        xs \in ThreadSeries }
      \cup { [tool |-> "transform_data_moving_average", data |-> xs,
              window_size |-> w] : xs \in ThreadSeries, w \in ThreadWindows }
      \cup { [tool |-> "get_color_palettes"] }

\* mutation: the locals are module-level names, one set for all threads
SharedFrame(t) == 1

\* the locals of a call belong to the thread that runs it
Frame(t) == t

\* the locals as the first statements of the handler leave them
EntryLocals(call) ==
    IF call.tool = "transform_data_percentage_change"
    THEN [NoLocals EXCEPT !.pct_change = <<ToRat(0)>>, !.i = 1]
    ELSE NoLocals

\* mutation: the accumulators are initialised once, not at every entry; only
\* the loop index starts afresh
InvokeInitialisingOnce(t) ==
    /\ calls[t] = NoCall
    /\ \E call \in ThreadCalls :
           /\ call.tool \in registry
           /\ calls' = [calls EXCEPT ![t] = call]
           /\ frames' =
                  [frames EXCEPT ![Frame(t)] =
                      IF @ = NoLocals THEN EntryLocals(call)
                      ELSE [@ EXCEPT !.i = EntryLocals(call).i]]
    /\ UNCHANGED <<results, earlier, process, server>>

Invoke(t) ==
    /\ calls[t] = NoCall
    /\ \E call \in ThreadCalls :
           /\ call.tool \in registry
           /\ calls' = [calls EXCEPT ![t] = call]
           /\ frames' = [frames EXCEPT ![Frame(t)] = EntryLocals(call)]
    /\ UNCHANGED <<results, earlier, process, server>>

Running(t, name) == calls[t].tool = name /\ results[t] = Pending

\* for value in data: running_sum += value; cumulative.append(running_sum)
CumulativeStep(t) ==
    /\ Running(t, "transform_data_cumulative")
    /\ LET f  == frames[Frame(t)]
           xs == calls[t].data
       IN  IF f.i < Len(xs)
           THEN /\ frames' =
                       [frames EXCEPT ![Frame(t)] =
                           [f EXCEPT !.i = f.i + 1,
                                     !.running_sum = f.running_sum + xs[f.i + 1],
                                     !.cumulative =
                                         Append(f.cumulative,
                                                f.running_sum + xs[f.i + 1])]]
                /\ UNCHANGED results
           ELSE /\ results' =
                       [results EXCEPT ![t] =
                           Return([original |-> xs, cumulative |-> f.cumulative])]
                /\ UNCHANGED frames
    /\ UNCHANGED <<calls, earlier, process, server>>

\* for i in range(len(data)): moving_avg.append(sum(window) / len(window))
MovingAverageStep(t) ==
    /\ Running(t, "transform_data_moving_average")
    /\ LET f  == frames[Frame(t)]
           xs == calls[t].data
           window == Window(xs, f.i, calls[t].window_size)
       IN  IF f.i < Len(xs) /\ Len(window) = 0
           THEN /\ results' = [results EXCEPT ![t] = Raise("ZeroDivisionError")]
                /\ UNCHANGED frames
           ELSE IF f.i < Len(xs)
           THEN /\ frames' =
                       [frames EXCEPT ![Frame(t)] =
                           [f EXCEPT !.i = f.i + 1,
                                     !.moving_avg =
                                         Append(f.moving_avg,
                                                Rat(PySum(window), Len(window)))]]
                /\ UNCHANGED results
           ELSE /\ results' =
                       [results EXCEPT ![t] =
                           Return([original |-> xs,
                                   moving_average |->
                                       [k \in 1..Len(f.moving_avg) |->
                                           Round2(f.moving_avg[k])],
                                   window_size |-> calls[t].window_size])]
                /\ UNCHANGED frames
    /\ UNCHANGED <<calls, earlier, process, server>>

\* for i in range(1, len(data)): pct_change.append(...)
PercentageChangeStep(t) ==
    /\ Running(t, "transform_data_percentage_change")
    /\ LET f  == frames[Frame(t)]
           xs == calls[t].data
       IN  IF f.i >= 1 /\ f.i < Len(xs)
           THEN /\ frames' =
                       [frames EXCEPT ![Frame(t)] =
                           [f EXCEPT !.i = f.i + 1,
                                     !.pct_change =
                                         Append(f.pct_change,
                                            IF xs[f.i] # 0
                                            THEN Round2(RatMul(
                                                   Rat(xs[f.i + 1] - xs[f.i], xs[f.i]),
                                                   ToRat(100)))
                                            ELSE ToRat(0))]]
                /\ UNCHANGED results
           ELSE /\ results' =
                       [results EXCEPT ![t] =
                           Return([original |-> xs,
                                   percentage_change |-> f.pct_change])]
                /\ UNCHANGED frames
    /\ UNCHANGED <<calls, earlier, process, server>>

\* the three rules append to suggestions one after the other (i counts the
\* rules applied); the statistics are expressions of the arguments
AnalyzeStep(t) ==
    /\ Running(t, "analyze_data_for_chart")
    /\ LET f     == frames[Frame(t)]
           xs    == calls[t].data
           count == Len(xs)
           mean  == Rat(PySum(xs), count)
           std_dev == Sqrt(Variance(xs, mean, count))
           extended(rule) ==
               [frames EXCEPT ![Frame(t)] =
                   [f EXCEPT !.i = f.i + 1,
                             !.suggestions = f.suggestions \o rule]]
           report(o) ==
               Return([statistics |-> o.value.statistics,
                       suggested_charts |-> f.suggestions,
                       data_summary |-> o.value.data_summary])
       IN  IF xs = <<>>
           THEN /\ results' = [results EXCEPT ![t] = EmptyInputResult]
                /\ UNCHANGED frames
           ELSE IF f.i = 0
           THEN frames' = extended(SmallSampleRule(count)) /\ UNCHANGED results
           ELSE IF f.i = 1
           THEN frames' = extended(LargeSampleRule(count)) /\ UNCHANGED results
           ELSE IF IsZero(mean)
           THEN /\ results' = [results EXCEPT ![t] = Raise("ZeroDivisionError")]
                /\ UNCHANGED frames
           ELSE IF f.i = 2
           THEN /\ \E rule \in VariabilityRule(std_dev, mean) :
                       frames' = extended(rule)
                /\ UNCHANGED results
           ELSE /\ \E o \in analyze_data_for_chart(xs, None) :
                       results' = [results EXCEPT ![t] = report(o)]
                /\ UNCHANGED frames
    /\ UNCHANGED <<calls, earlier, process, server>>

\* return json.dumps(COLOR_PALETTES)
GetColorPalettes(t) ==
    /\ Running(t, "get_color_palettes")
    /\ results' = [results EXCEPT ![t] = Return(COLOR_PALETTES)]
    /\ UNCHANGED <<calls, frames, earlier, process, server>>

\* the outcome goes back to the caller; earlier may remember the call
Deliver(t) ==
    /\ results[t] # Pending
    /\ earlier' \in {earlier, [call |-> calls[t], outcome |-> results[t]]}
    /\ calls' = [calls EXCEPT ![t] = NoCall]
    /\ results' = [results EXCEPT ![t] = Pending]
    /\ UNCHANGED <<frames, process, server>>

InitThreads ==
    /\ data = <<>>
    /\ tie_exceeds = FALSE
    /\ tool = "none"
    /\ args = NoArgs
    /\ outcome = Pending
    /\ COLOR_PALETTES = ColorPalettes
    /\ registry = Registered
    /\ AtRest

NextThreads ==
    \E t \in Threads :
        \/ Invoke(t)
        \/ CumulativeStep(t)
        \/ MovingAverageStep(t)
        \/ PercentageChangeStep(t)
        \/ AnalyzeStep(t)
        \/ GetColorPalettes(t)
        \/ Deliver(t)

SpecThreads == InitThreads /\ [][NextThreads]_vars

(***************************************************************************)
(* filter_chart_data applied to labels and datasets of its own.            *)
(***************************************************************************)
FilterValues == {1, 2, 3}

FilterThresholds == {2}

FilterConditions ==
    {"greater_than", "less_than", "equals", "not_equals", "between"}

FilterData == UNION { [1..n -> FilterValues] : n \in 0..MaxFilterLen }

\* a dataset is a dict; one may come without "data"
FilterDatasets ==
    { [label |-> "Series", data |-> xs] : xs \in FilterData }
      \cup { [label |-> "Series"] }

FilterDatasetLists ==
    {<<>>} \cup { <<d>> : d \in FilterDatasets }
           \cup { <<d, e>> : d, e \in FilterDatasets }

FilterLabels ==
    { SubSeq(LabelNames, 1, n) : n \in 0..(MaxFilterLen + 1) }

FilterArgs ==
    [labels : FilterLabels, datasets : FilterDatasetLists,
     filter_condition : FilterConditions, threshold : FilterThresholds]

InitFilter ==
    /\ args \in FilterArgs
    /\ data = <<>>
    /\ tie_exceeds = FALSE
    /\ tool = "none"
    /\ outcome = Pending
    /\ COLOR_PALETTES = ColorPalettes
    /\ registry = Registered
    /\ AtRest

FilterChartData ==
    /\ Idle
    /\ "filter_chart_data" \in registry
    /\ tool' = "filter_chart_data"
    /\ outcome' = filter_chart_data(args.labels, args.datasets,
                                    args.filter_condition, args.threshold)
    /\ UNCHANGED <<args, data, tie_exceeds, process, threads>>

NextFilter == FilterChartData

SpecFilter == InitFilter /\ [][NextFilter]_vars

(***************************************************************************)
(* Vocabulary of the properties.  The statistics of the properties are     *)
(* stated on the series itself, in integers, not through the operators the *)
(* handlers are modelled with.                                             *)
(***************************************************************************)
IsReport(o) == o.kind = "return" /\ "statistics" \in DOMAIN o.value

IsStructuredError(o) == o.kind = "return" /\ "error" \in DOMAIN o.value

Analyzed == tool = "analyze_data_for_chart"

SuggestedTypes(o) ==
    [i \in 1..Len(o.value.suggested_charts) |-> o.value.suggested_charts[i].type]

Occurs(t, types) == \E i \in 1..Len(types) : types[i] = t

RECURSIVE Total(_)
Total(xs) == IF xs = <<>> THEN 0 ELSE Head(xs) + Total(Tail(xs))

RECURSIVE SumOfSquares(_)
SumOfSquares(xs) ==
    IF xs = <<>> THEN 0 ELSE Head(xs) * Head(xs) + SumOfSquares(Tail(xs))

\* stdDev / mean > 1/2, for the population standard deviation: with n = count,
\* S = sum and Q = sum of squares, variance = (n*Q - S^2) / n^2 and
\* mean = S / n, so the quotient exceeds 1/2 iff S > 0 and 4*n*Q > 5*S^2
VariationExceedsHalf(xs) ==
    Total(xs) > 0 /\ 4 * Len(xs) * SumOfSquares(xs) > 5 * Total(xs) * Total(xs)

VariationIsHalf(xs) ==
    Total(xs) > 0 /\ 4 * Len(xs) * SumOfSquares(xs) = 5 * Total(xs) * Total(xs)

\* the mean of xs is a binary fraction
MeanIsDyadic(xs) == IsPowerOfTwo(Len(xs) \div GCD(Abs(Total(xs)), Len(xs)))

(***************************************************************************)
(* C1.  analyze called with an empty series returns a structured error     *)
(* result, a document with an error field and no statistics, and raises    *)
(* no exception.                                                           *)
(***************************************************************************)
C1_EmptySeriesStructuredError ==
    (Analyzed /\ data = <<>>) =>
        /\ IsStructuredError(outcome)
        /\ "statistics" \notin DOMAIN outcome.value

C1_Witness == Analyzed /\ data = <<>> /\ IsStructuredError(outcome)

(***************************************************************************)
(* C2.  For every non-empty series whose mean is 0, analyze returns a      *)
(* normal statistics report without a scatter suggestion, and no error or  *)
(* exception results from the division by the mean.                        *)
(***************************************************************************)
C2_ZeroMeanReported ==
    (Analyzed /\ data # <<>> /\ Total(data) = 0) =>
        /\ IsReport(outcome)
        /\ ~Occurs("scatter", SuggestedTypes(outcome))

(***************************************************************************)
(* C3.  movingAverage called with windowSize <= 0 fails, for every series, *)
(* with InvalidParameterError surfaced as a structured failure result.     *)
(***************************************************************************)
C3_NonPositiveWindowRejected ==
    (tool = "transform_data_moving_average" /\ args.window_size <= 0) =>
        \/ IsStructuredError(outcome)
        \/ outcome.kind = "raise" /\ outcome.exc = "InvalidParameterError"

(***************************************************************************)
(* C4.  For every series, the empty one included, percentageChange returns *)
(* a sequence as long as its input, whose first element, if any, is 0.     *)
(***************************************************************************)
C4_PercentageChangeLength ==
    tool = "transform_data_percentage_change" =>
        /\ outcome.kind = "return"
        /\ Len(outcome.value.percentage_change) = Len(data)
        /\ outcome.value.percentage_change # <<>> =>
               outcome.value.percentage_change[1] = ToRat(0)

(***************************************************************************)
(* C5.  For every series of count <= 10 (a series analyze accepts, so a    *)
(* non-empty one) the suggestion list begins with pie, bar and holds no    *)
(* line or area; for count > 10 it begins with line, area and holds no pie *)
(* or bar.  Count 10 is in the pie/bar branch.                             *)
(***************************************************************************)
C5_CountRule ==
    (Analyzed /\ data # <<>>) =>
        /\ IsReport(outcome)
        /\ LET types == SuggestedTypes(outcome)
           IN  /\ Len(types) >= 2
               /\ Len(data) <= 10 =>
                      /\ SubSeq(types, 1, 2) = <<"pie", "bar">>
                      /\ ~Occurs("line", types) /\ ~Occurs("area", types)
               /\ Len(data) > 10 =>
                      /\ SubSeq(types, 1, 2) = <<"line", "area">>
                      /\ ~Occurs("pie", types) /\ ~Occurs("bar", types)

(***************************************************************************)
(* C6.  For every non-empty series with non-zero mean, analyze adds a      *)
(* scatter suggestion if and only if stdDev / mean > 0.5 on the unrounded  *)
(* values, and scatter, when added, is the last entry of the list.         *)
(***************************************************************************)
ScatterIsLast(types) ==
    \A i \in 1..Len(types) : types[i] = "scatter" => i = Len(types)

C7_TestSeriesOnlyPieAndBar ==
    (Analyzed /\ data = TestSeries) =>
        /\ IsReport(outcome)
        /\ SuggestedTypes(outcome) = <<"pie", "bar">>

\* C7 as amended: the series has stdDev / mean = 27.17 / 51.7 > 0.5, so rule 3
\* adds scatter after pie and bar; there is no line and no area.
C7_TestSeriesPieBarScatter ==
    (Analyzed /\ data = TestSeries) =>
        /\ IsReport(outcome)
        /\ SuggestedTypes(outcome) = <<"pie", "bar", "scatter">>

C7_Witness ==
    /\ Analyzed /\ data = TestSeries /\ IsReport(outcome)
    /\ outcome.value.statistics.count = 10

(***************************************************************************)
(* C8.  Every successful analyze call yields between 0 and 3 suggestions,  *)
(* in rule order: the entries of the count rule come before the scatter    *)
(* entry, and no suggestion type appears twice.                            *)
(***************************************************************************)
C8_SuggestionsOrdered ==
    (Analyzed /\ IsReport(outcome)) =>
        LET types == SuggestedTypes(outcome)
        IN  /\ Len(types) \in 0..3
            /\ \A i, j \in 1..Len(types) : i # j => types[i] # types[j]
            /\ \A i, j \in 1..Len(types) :
                   (types[i] = "scatter" /\ types[j] # "scatter") => j < i

C8_Witness ==
    /\ Analyzed /\ IsReport(outcome)
    /\ SuggestedTypes(outcome) = <<"line", "area", "scatter">>

(***************************************************************************)
(* C9.  For every non-empty series S, analyze(S).statistics.count is the   *)
(* length of S.                                                            *)
(***************************************************************************)
C9_CountIsLength ==
    (Analyzed /\ data # <<>>) =>
        /\ IsReport(outcome)
        /\ outcome.value.statistics.count = Len(data)

(***************************************************************************)
(* C10.  For every non-empty series S, analyze(S).statistics.sum is the    *)
(* arithmetic total of S, and analyze(S).statistics.mean is within 0.005   *)
(* of sum(S) / len(S).                                                     *)
(***************************************************************************)
C10_SumAndMean ==
    (Analyzed /\ data # <<>>) =>
        /\ IsReport(outcome)
        /\ outcome.value.statistics.sum = Total(data)
        /\ LET m == outcome.value.statistics.mean
           IN  200 * Abs(m.num * Len(data) - Total(data) * m.den)
                   <= m.den * Len(data)

(***************************************************************************)
(* C11.  For every non-empty series S the reported median is the middle    *)
(* element of S sorted ascending when the count is odd, and the average of *)
(* the two central elements when it is even (2.5 for [1,2,3,4], 2 for      *)
(* [1,2,3]); it does not depend on the order of S.                         *)
(***************************************************************************)
\* the k-th smallest element of xs, by rank: fewer than k elements are
\* below it, and at least k are not above it
KthSmallest(xs, k) ==
    CHOOSE v \in { xs[i] : i \in 1..Len(xs) } :
        /\ Cardinality({ i \in 1..Len(xs) : xs[i] < v }) < k
        /\ Cardinality({ i \in 1..Len(xs) : xs[i] <= v }) >= k

CentralValue(xs) ==
    LET n == Len(xs)
    IN  IF n % 2 = 1 THEN Rat(KthSmallest(xs, (n + 1) \div 2), 1)
        ELSE Rat(KthSmallest(xs, n \div 2) + KthSmallest(xs, (n \div 2) + 1), 2)

C11_MedianIsCentralValue ==
    (Analyzed /\ data # <<>>) =>
        /\ IsReport(outcome)
        /\ outcome.value.statistics.median = CentralValue(data)
        /\ data = <<1, 2, 3, 4>> => outcome.value.statistics.median = Rat(5, 2)
        /\ data = <<1, 2, 3>> => outcome.value.statistics.median = Rat(2, 1)

(***************************************************************************)
(* C12.  For every non-empty series S the reported min and max are the     *)
(* smallest and the largest element of S, range is max - min and is never  *)
(* negative, and min <= median <= max.                                     *)
(***************************************************************************)
C12_MinMaxRange ==
    (Analyzed /\ data # <<>>) =>
        /\ IsReport(outcome)
        /\ LET st == outcome.value.statistics
           IN  /\ st.min = KthSmallest(data, 1)
               /\ st.max = KthSmallest(data, Len(data))
               /\ st.range = st.max - st.min
               /\ st.range >= 0
               /\ st.min * st.median.den <= st.median.num
               /\ st.median.num <= st.max * st.median.den

(***************************************************************************)
(* C13.  For every non-empty series S the variance computed by the         *)
(* analysis is the population variance, the sum of squared deviations from *)
(* the mean divided by count (not count - 1), and the standard deviation   *)
(* is its square root; a series of identical values has variance 0 and     *)
(* standard deviation 0.                                                   *)
(***************************************************************************)
\* sum of (x - S/n)^2 over n, in closed form: (n*Q - S^2) / n^2
PopulationVariance(xs) ==
    LET n == Len(xs)
    IN  Rat(n * SumOfSquares(xs) - Total(xs) * Total(xs), n * n)

Hundredths(x) == (x.num * 100) \div x.den

\* r, a number of whole hundredths, is within half a hundredth of x
NearestHundredth(r, x) ==
    /\ 100 % r.den = 0
    /\ Abs(200 * x.num - 2 * Hundredths(r) * x.den) <= x.den

\* r, a number of whole hundredths, is within half a hundredth of sqrt(x)
NearestHundredthOfRoot(r, x) ==
    LET a == Hundredths(r)
        g == GCD(40000, x.den)
        lo == IF a = 0 THEN 0 ELSE (2 * a - 1) * (2 * a - 1)
        hi == (2 * a + 1) * (2 * a + 1)
    IN  /\ 100 % r.den = 0
        /\ a >= 0
        /\ lo * (x.den \div g) <= x.num * (40000 \div g)
        /\ x.num * (40000 \div g) <= hi * (x.den \div g)

IdenticalValues(xs) == \A i \in 1..Len(xs) : xs[i] = xs[1]

C13_PopulationVariance ==
    (Analyzed /\ data # <<>>) =>
        LET count    == Len(data)
            variance == Variance(data, Rat(PySum(data), count), count)
            std_dev  == Sqrt(variance)
        IN  /\ variance = PopulationVariance(data)
            /\ std_dev.radicand = PopulationVariance(data)
            /\ IdenticalValues(data) =>
                   variance = ToRat(0) /\ Round2Sqrt(std_dev) = ToRat(0)
            /\ IsReport(outcome) =>
                 /\ NearestHundredth(outcome.value.statistics.variance,
                                     PopulationVariance(data))
                 /\ NearestHundredthOfRoot(outcome.value.statistics.std_dev,
                                           PopulationVariance(data))
                 /\ IdenticalValues(data) =>
                      /\ outcome.value.statistics.variance = ToRat(0)
                      /\ outcome.value.statistics.std_dev = ToRat(0)

\* the population variance of [1, 3] is 1, its sample variance is 2
C13_Witness ==
    /\ Analyzed /\ IsReport(outcome)
    /\ data = <<1, 3>>
    /\ outcome.value.statistics.variance = ToRat(1)
    /\ outcome.value.statistics.std_dev = ToRat(1)

C15_LabelSummary ==
    (Analyzed /\ IsReport(outcome)) =>
        LET labels  == args.labels
            summary == outcome.value.data_summary
        IN  /\ summary.has_labels <=> ~labels.none
            /\ summary.label_count =
                   IF labels.none THEN 0 ELSE Len(labels.val)

\* an empty label sequence was passed: has_labels, and label_count 0
C15_Witness ==
    /\ Analyzed /\ IsReport(outcome)
    /\ args.labels = Some(<<>>)
    /\ outcome.value.data_summary = [has_labels |-> TRUE, label_count |-> 0]

(***************************************************************************)
(* C16.  The analysis tolerates any label sequence: for a fixed non-empty  *)
(* series the statistics and the suggestion list are the same whether the  *)
(* labels are absent, shorter than, as long as or longer than the series;  *)
(* labels only affect data_summary and never cause a failure.              *)
(***************************************************************************)
\* an outcome with the data_summary of its report left out
WithoutSummary(o) ==
    IF IsReport(o)
    THEN [statistics |-> o.value.statistics,
          suggested_charts |-> o.value.suggested_charts]
    ELSE o

C16_LabelsOnlyInSummary ==
    (Analyzed /\ data # <<>>) =>
        \A unlabelled \in analyze_data_for_chart(data, None) :
            /\ WithoutSummary(outcome) = WithoutSummary(unlabelled)
            /\ IsReport(outcome) <=> IsReport(unlabelled)

\* a report for a series that came with more labels than it has values
C16_Witness ==
    /\ Analyzed /\ IsReport(outcome)
    /\ ~args.labels.none
    /\ Len(args.labels.val) > Len(data)
    /\ outcome.value.data_summary.label_count > outcome.value.statistics.count

(***************************************************************************)
(* C17.  cumulativeSum returns a sequence as long as the series S whose    *)
(* entry i is S[0] + ... + S[i], so the last entry is sum(S); for the      *)
(* empty series it returns the empty sequence, not an error.               *)
(***************************************************************************)
C17_CumulativeSum ==
    tool = "transform_data_cumulative" =>
        /\ outcome.kind = "return"
        /\ ~IsStructuredError(outcome)
        /\ LET cumulative == outcome.value.cumulative
           IN  /\ Len(cumulative) = Len(data)
               /\ \A i \in 1..Len(data) :
                      cumulative[i] = Total(SubSeq(data, 1, i))
               /\ data # <<>> => cumulative[Len(data)] = Total(data)
               /\ data = <<>> => cumulative = <<>>

C17_Witness ==
    /\ tool = "transform_data_cumulative"
    /\ data = <<100, 150, 120>>
    /\ outcome = Return([original |-> data, cumulative |-> <<100, 250, 370>>])

(***************************************************************************)
(* C18.  movingAverage over a series S with windowSize w >= 1 returns a    *)
(* sequence as long as S whose entry i is the average, rounded to 2        *)
(* decimal places, of S[max(0, i - w + 1) .. i]; it never fails, the empty *)
(* series included.  For ([10,20,30,40,50], 3) the result is               *)
(* [10.0, 15.0, 20.0, 30.0, 40.0].                                         *)
(***************************************************************************)
MovingAveraged == tool = "transform_data_moving_average"

\* the average of S[lo .. hi], 1-based and inclusive
AverageOf(xs, lo, hi) == Rat(Total(SubSeq(xs, lo, hi)), hi - lo + 1)

C18_MovingAverage ==
    (MovingAveraged /\ args.window_size >= 1) =>
        /\ outcome.kind = "return"
        /\ ~IsStructuredError(outcome)
        /\ LET w      == args.window_size
               result == outcome.value.moving_average
           IN  /\ Len(result) = Len(data)
               /\ \A i \in 1..Len(data) :
                      LET lo == IF i - w + 1 > 1 THEN i - w + 1 ELSE 1
                      IN  NearestHundredth(result[i], AverageOf(data, lo, i))
               /\ (data = <<10, 20, 30, 40, 50>> /\ w = 3) =>
                      result = <<ToRat(10), ToRat(15), ToRat(20),
                                 ToRat(30), ToRat(40)>>

C18_Witness ==
    /\ MovingAveraged
    /\ data = <<10, 20, 30, 40, 50>>
    /\ args.window_size = 3
    /\ outcome.kind = "return"
    /\ outcome.value.moving_average[5] = ToRat(40)

(***************************************************************************)
(* C19.  The start of a moving average is ragged: for every index          *)
(* i < w - 1 the entry i is the average of the prefix S[0..i], a shorter   *)
(* window; no index is skipped and none holds a null or a padding value.   *)
(* When w >= len(S) every entry is the average of a prefix.                *)
(***************************************************************************)
IsNumber(r) == DOMAIN r = {"num", "den"} /\ r.den > 0

C19_RaggedStart ==
    (MovingAveraged /\ args.window_size >= 1) =>
        /\ outcome.kind = "return"
        /\ LET w      == args.window_size
               result == outcome.value.moving_average
           IN  /\ DOMAIN result = 1..Len(data)
               /\ \A i \in 1..Len(data) : IsNumber(result[i])
               /\ \A i \in 1..Len(data) :
                      (i - 1 < w - 1 \/ w >= Len(data)) =>
                          NearestHundredth(result[i], AverageOf(data, 1, i))

\* window 3 over the three values 100, 150, 120: every entry is the average
\* of a prefix
C19_Witness ==
    /\ MovingAveraged
    /\ data = <<100, 150, 120>>
    /\ args.window_size = 3
    /\ outcome.kind = "return"
    /\ outcome.value.moving_average =
           <<ToRat(100), ToRat(125), Rat(12333, 100)>>

(***************************************************************************)
(* C20.  For every series S and every index i >= 1 with S[i-1] = 0, entry  *)
(* i of percentageChange(S) is 0: percentageChange([0, 50])[1] = 0.        *)
(***************************************************************************)
PercentageChanged == tool = "transform_data_percentage_change"

C20_ZeroBaselineYieldsZero ==
    PercentageChanged =>
        /\ outcome.kind = "return"
        /\ \A i \in 2..Len(data) :
               data[i - 1] = 0 =>
                   /\ i \in DOMAIN outcome.value.percentage_change
                   /\ outcome.value.percentage_change[i] = ToRat(0)

C20_Witness ==
    /\ PercentageChanged
    /\ data = <<0, 50>>
    /\ outcome.kind = "return"
    /\ outcome.value.percentage_change = <<ToRat(0), ToRat(0)>>

(***************************************************************************)
(* C21.  For every series S and every index i >= 1 with S[i-1] # 0, entry  *)
(* i of percentageChange(S) is ((S[i] - S[i-1]) / S[i-1]) * 100 rounded to *)
(* 2 decimal places, its sign that of the change relative to the baseline: *)
(* percentageChange([100, 150, 120]) = [0, 50.0, -20.0].                   *)
(***************************************************************************)
C21_PercentageOfBaseline ==
    PercentageChanged =>
        /\ outcome.kind = "return"
        /\ \A i \in 2..Len(data) :
               data[i - 1] # 0 =>
                   LET exact == Rat((data[i] - data[i - 1]) * 100, data[i - 1])
                   IN  /\ i \in DOMAIN outcome.value.percentage_change
                       /\ NearestHundredth(outcome.value.percentage_change[i],
                                           exact)
                       /\ outcome.value.percentage_change[i].num * exact.num >= 0
        /\ data = <<100, 150, 120>> =>
               outcome.value.percentage_change =
                   <<ToRat(0), ToRat(50), ToRat(-20)>>

C21_Witness ==
    /\ PercentageChanged
    /\ data = <<100, 150, 120>>
    /\ outcome.kind = "return"
    /\ outcome.value.percentage_change[2] = ToRat(50)
    /\ outcome.value.percentage_change[3] = ToRat(-20)

(***************************************************************************)
(* C22.  cumulativeSum and percentageChange are total: for every series,   *)
(* the empty one and those holding zeros or negative values included, each *)
(* returns a result and never fails.  Of the three transforms only         *)
(* movingAverage can fail, and only for a bad window size.                 *)
(***************************************************************************)
Cumulated == tool = "transform_data_cumulative"

Failed(o) == o.kind = "raise" \/ IsStructuredError(o)

Transformed == Cumulated \/ MovingAveraged \/ PercentageChanged

OriginalIsInput ==
    (Transformed /\ outcome.kind = "return") =>
        /\ "original" \in DOMAIN outcome.value
        /\ Len(outcome.value.original) = Len(data)
        /\ \A i \in 1..Len(data) : outcome.value.original[i] = data[i]

C23_OriginalPairedWithInput ==
    /\ [] OriginalIsInput
    /\ [][data' = data]_vars

C23_Witness ==
    /\ MovingAveraged
    /\ args.window_size = 2
    /\ data = <<1, 2, 3, 4>>
    /\ outcome.kind = "return"
    /\ outcome.value.original = <<1, 2, 3, 4>>

(***************************************************************************)
(* C24.  No state survives a call: after any sequence of tool invocations  *)
(* the process-wide COLOR_PALETTES table is unchanged, and an invocation   *)
(* of analyze, cumulativeSum, movingAverage or percentageChange returns    *)
(* the same result for the same arguments whatever calls preceded it.      *)
(***************************************************************************)
\* a call that was made earlier, with the same arguments, had the same outcome
SameAsEarlier(t) ==
    (results[t] # Pending /\ earlier.call = calls[t]) =>
        results[t] = earlier.outcome

C24_NoStateSurvives ==
    /\ COLOR_PALETTES = ColorPalettes
    /\ \A t \in Threads : SameAsEarlier(t)

\* the cumulative sum of [1, 2, 3] is asked for a second time
C24_Witness ==
    \E t \in Threads :
        /\ calls[t] = [tool |-> "transform_data_cumulative", data |-> <<1, 2, 3>>]
        /\ earlier.call = calls[t]
        /\ results[t] = earlier.outcome
        /\ results[t].value.cumulative = <<1, 3, 6>>
        /\ COLOR_PALETTES = ColorPalettes

(***************************************************************************)
(* C25.  Invocations are independent under concurrency: when calls of      *)
(* analyze and of the three transforms run interleaved on separate threads *)
(* with no coordination, the accumulators of each call (running sum,       *)
(* result lists) are private to it, and each call returns exactly the      *)
(* result it would return when run alone.                                  *)
(***************************************************************************)
\* the outcomes of the call when nothing else runs: the handler as one step
RunAlone(call) ==
    CASE call.tool = "analyze_data_for_chart" ->
             analyze_data_for_chart(call.data, None)
      [] call.tool = "transform_data_cumulative" ->
             {transform_data_cumulative(call.data)}
      [] call.tool = "transform_data_moving_average" ->
             {transform_data_moving_average(call.data, call.window_size)}
      [] call.tool = "transform_data_percentage_change" ->
             {transform_data_percentage_change(call.data)}
      [] call.tool = "get_color_palettes" -> {Return(ColorPalettes)}

C25_InterleavedAsAlone ==
    \A t \in Threads :
        results[t] # Pending => results[t] \in RunAlone(calls[t])

\* one thread has its cumulative sums while the other is inside the loop of
\* the same handler
C25_Witness ==
    \E t, u \in Threads :
        /\ t # u
        /\ calls[t] = [tool |-> "transform_data_cumulative", data |-> <<1, 2, 3>>]
        /\ results[t] = Return([original |-> <<1, 2, 3>>,
                                cumulative |-> <<1, 3, 6>>])
        /\ calls[u] = [tool |-> "transform_data_cumulative", data |-> <<0, 50>>]
        /\ results[u] = Pending
        /\ frames[u].i = 1

C27_TwoOrThreeSuggestions ==
    (Analyzed /\ data # <<>> /\ IsReport(outcome)) =>
        LET types == SuggestedTypes(outcome)
            small == Occurs("pie", types) \/ Occurs("bar", types)
            large == Occurs("line", types) \/ Occurs("area", types)
        IN  /\ small # large
            /\ Len(types) \in {2, 3}
            /\ Len(types) = 3 => types[3] = "scatter"

\* eleven values: the rule for count > 10 alone fires
C27_Witness ==
    /\ Analyzed /\ IsReport(outcome)
    /\ Len(data) = 11
    /\ SuggestedTypes(outcome) = <<"line", "area">>

(***************************************************************************)
(* C28.  For every non-empty series whose mean is negative the analysis    *)
(* never suggests scatter, however large the spread of the values: the     *)
(* quotient stdDev / mean is then not positive and cannot exceed 0.5.      *)
(***************************************************************************)
C28_NegativeMeanNoScatter ==
    (Analyzed /\ data # <<>> /\ Total(data) < 0) =>
        /\ IsReport(outcome)
        /\ ~Occurs("scatter", SuggestedTypes(outcome))

\* mean -1/2 and standard deviation 1/2: the magnitude of the quotient is 1
C28_Witness ==
    /\ Analyzed /\ IsReport(outcome)
    /\ data = <<-1, 0>>
    /\ SuggestedTypes(outcome) = <<"pie", "bar">>

(***************************************************************************)
(* C29.  filter_chart_data selects indices by testing only the values of   *)
(* the first dataset against the threshold and applies that index set, in  *)
(* increasing index order, to the labels and to every dataset.             *)
(* filtered_count never exceeds original_count, no output sequence is      *)
(* longer than its input, and when the labels and all datasets have the    *)
(* same length all filtered sequences have the same length, entry k of     *)
(* each taken from the same input index.  An unrecognised filter_condition *)
(* or an empty dataset list yields empty labels and no error.              *)
(***************************************************************************)
Filtered == tool = "filter_chart_data"

DataOf(dataset) == IF "data" \in DOMAIN dataset THEN dataset.data ELSE <<>>

Recognised == {"greater_than", "less_than", "equals", "not_equals"}

Passes(value) ==
    CASE args.filter_condition = "greater_than" -> value > args.threshold
      [] args.filter_condition = "less_than" -> value < args.threshold
      [] args.filter_condition = "equals" -> value = args.threshold
      [] args.filter_condition = "not_equals" -> value # args.threshold
      [] OTHER -> FALSE

\* the positions of the first dataset whose value passes the test
Selected ==
    IF args.datasets = <<>> THEN {}
    ELSE { i \in 1..Len(DataOf(args.datasets[1])) :
               Passes(DataOf(args.datasets[1])[i]) }

\* the k-th smallest position of a set of positions
KthOf(positions, k) ==
    CHOOSE i \in positions : Cardinality({ j \in positions : j < i }) = k - 1

\* the entries of xs at the given positions, as far as xs has them, in
\* increasing order of position
Restriction(xs, positions) ==
    LET within == positions \cap 1..Len(xs)
    IN  [k \in 1..Cardinality(within) |-> xs[KthOf(within, k)]]

C29_FilterByFirstDataset ==
    Filtered =>
        /\ outcome.kind = "return"
        /\ ~IsStructuredError(outcome)
        /\ LET result == outcome.value
               applied == outcome.value.filter_applied
           IN  /\ result.labels = Restriction(args.labels, Selected)
               /\ Len(result.datasets) = Len(args.datasets)
               /\ \A k \in 1..Len(args.datasets) :
                      /\ result.datasets[k].data =
                             Restriction(DataOf(args.datasets[k]), Selected)
                      /\ Len(result.datasets[k].data)
                             <= Len(DataOf(args.datasets[k]))
                      /\ result.datasets[k].label = args.datasets[k].label
               /\ applied.original_count = Len(args.labels)
               /\ applied.filtered_count = Len(result.labels)
               /\ applied.filtered_count <= applied.original_count
               /\ (\A k \in 1..Len(args.datasets) :
                       Len(DataOf(args.datasets[k])) = Len(args.labels)) =>
                      \A k \in 1..Len(args.datasets) :
                          Len(result.datasets[k].data) = Len(result.labels)
               /\ (args.filter_condition \notin Recognised
                       \/ args.datasets = <<>>) => result.labels = <<>>

\* two datasets and two labels; only the second value of the first dataset
\* exceeds the threshold, and it is the smaller value of the second one
C29_Witness ==
    /\ Filtered
    /\ args.labels = <<"A", "B">>
    /\ args.datasets = <<[label |-> "Series", data |-> <<1, 3>>],
                         [label |-> "Series", data |-> <<3, 1>>]>>
    /\ args.filter_condition = "greater_than"
    /\ outcome.kind = "return"
    /\ outcome.value.labels = <<"B">>
    /\ outcome.value.datasets = <<[label |-> "Series", data |-> <<3>>],
                                  [label |-> "Series", data |-> <<1>>]>>

====
